---- MODULE Spec2Model ----
(***************************************************************************)
(* A model of aether-host: the Security Gate (src/security/mod.rs), the    *)
(* subprocess Transport (src/runtime/mod.rs), the Protocol Client          *)
(* (src/client.rs) and the two orchestrator loops of the repository, the   *)
(* conversation loop of main (src/main.rs) and Agent::run / Agent::cycle   *)
(* (src/agent.rs).  The tool process, the completion service and the       *)
(* terminal are the environment: what they hand to the program is drawn    *)
(* from small sets.                                                        *)
(***************************************************************************)
EXTENDS Integers, Sequences, FiniteSets, TLC

VARIABLES
    orch,                \* which orchestrator runs: "main" or "agent"
    pc,                  \* the orchestrator task's position
    security,            \* McpClient.security (SecurityConfig)
    gate,                \* the last check_permission call: its argument and verdict
    child,               \* the tool process: none, running, stdout_closed, exited
    stdin,               \* every request line written to the child's stdin, in order
    child_pos,           \* how many of them the child has consumed
    stdout,              \* the lines the child wrote that the client has not read
    request_id_counter,  \* McpClient.request_id_counter
    last_result,         \* what the last client operation returned, until the turn drops it
    tools,               \* the tool list the conversation loop holds
    history,             \* the transcript (Vec<Message>)
    tool_calls,          \* the tool_calls list the loop is iterating over (a local of the turn)
    call_idx,            \* the position of the loop in tool_calls
    rx_agent,            \* user-text channel: lines sent and not yet received
    tx_agent_open,       \* FALSE once the sender of the user-text channel is dropped
    tx_ui,               \* every display event the orchestrator sent, in order
    llm_reqs,            \* every completion request issued, in order
    last_llm,            \* how the last completion request ended
    turn                 \* marks taken when the current turn began

vars == <<orch, pc, security, gate, child, stdin, child_pos, stdout,
          request_id_counter, last_result, tools, history, tool_calls, call_idx,
          rx_agent, tx_agent_open, tx_ui, llm_reqs, last_llm, turn>>

----------------------------------------------------------------------------
(* Bounds of the model. *)

\* user lines the terminal submits in one run
MaxTurns == 2
\* request lines fed to the tool process when it is run on its own
MaxToolRequests == 2
\* tool calls the completion service requests in one reply
MaxCalls == 2
\* messages of the transcript: a turn begins, and a reply requests tool calls,
\* only when what the turn may append still fits
MaxTranscript == 7

----------------------------------------------------------------------------
(* Option<T>: None is the empty sequence, Some(x) the one-element sequence. *)

None == <<>>

Some(x) == <<x>>

IsSome(o) == o /= <<>>

Unwrap(o) == o[1]

----------------------------------------------------------------------------
(* The Security Gate. *)

ToolNames == {"calculate_sum", "shell"}

\* the strings a policy document may carry: the two the gate is written for,
\* and two it is not (rules and global_policy are plain Strings)
PolicyValues == {"allow", "deny", "ask", "Allow"}

\* rules: HashMap<String, String>, a set of (tool name, action) pairs with
\* one pair per name at most.
RuleSets == {r \in SUBSET (ToolNames \X PolicyValues) :
                \A p \in r : \A q \in r : p[1] = q[1] => p = q}

SecurityConfig == [version : {"1.0"}, global_policy : PolicyValues, rules : RuleSets]

\* self.rules.get(tool_name)
RulesGet(cfg, tool_name) ==
    IF \E p \in cfg.rules : p[1] = tool_name
    THEN Some((CHOOSE p \in cfg.rules : p[1] = tool_name)[2])
    ELSE None

\* a gate that lets the global policy override a rule
check_permission_GlobalWins(cfg, tool_name) ==
    IF cfg.global_policy = "allow"
    THEN TRUE
    ELSE RulesGet(cfg, tool_name) = Some("allow")

\* a gate that denies only what is spelled deny
check_permission_FailOpen(cfg, tool_name) ==
    IF IsSome(RulesGet(cfg, tool_name))
    THEN Unwrap(RulesGet(cfg, tool_name)) /= "deny"
    ELSE cfg.global_policy /= "deny"

check_permission(cfg, tool_name) ==
    IF IsSome(RulesGet(cfg, tool_name))
    THEN Unwrap(RulesGet(cfg, tool_name)) = "allow"
    ELSE cfg.global_policy = "allow"

\* The permission files of the two end-to-end scenarios of the design:
\* deny by default with calculate_sum allowed, and with calculate_sum denied.
LoadedPolicies ==
    { [version |-> "1.0", global_policy |-> "deny",
       rules |-> {<<"calculate_sum", "allow">>}],
      [version |-> "1.0", global_policy |-> "deny",
       rules |-> {<<"calculate_sum", "deny">>}] }

NoGate == [tool_name |-> "", verdict |-> FALSE]

----------------------------------------------------------------------------
(* Results of the client's operations (anyhow::Result).  kind names the     *)
(* place that built the error; text is the error's message.                 *)

Ok(v) == [ok |-> TRUE, kind |-> "Ok", text |-> v]

Err(k, msg) == [ok |-> FALSE, kind |-> k, text |-> msg]

NoResult == [ok |-> TRUE, kind |-> "none", text |-> ""]

PermissionDenied(tool_name) ==
    Err("PermissionDenied",
        "SECURITY ALERT: Tool '" \o tool_name \o "' is blocked by permissions.json")

TransportClosed == Err("TransportClosed", "Process closed the connection (EOF)")

TransportIo == Err("TransportIo", "Broken pipe (os error 32)")

----------------------------------------------------------------------------
(* The wire protocol. *)

JsonRpcRequest(method, params, id) == [method |-> method, params |-> params, id |-> id]

InitializeResultDoc == "{protocolVersion,capabilities,serverInfo}"

ListToolsResultDoc == "{tools:[calculate_sum]}"

BadDoc == "{}"

MethodNotFound == [code |-> -32601, message |-> "Method not found"]

\* the text the tool computes for a tools/call request
CallResultDoc(req) ==
    IF Unwrap(req.params).arguments = "{a:2,b:2}"
    THEN "{content:[{text:The sum is 4,type:text}]}"
    ELSE "{content:[{text:The sum is 0,type:text}]}"

GoodDoc(req) ==
    IF req.method = "initialize" THEN InitializeResultDoc
    ELSE IF req.method = "tools/list" THEN ListToolsResultDoc
    ELSE CallResultDoc(req)

\* The response lines a tool process may write for a request: with or without
\* a result (well-formed or, for the two decoded results, not), with or without
\* an error object; and the well-formed answer under an id that is not the
\* request's (0: no request carries it).
ResponseLines(req) ==
    [id : {req.id},
     result : {None, Some(GoodDoc(req))} \cup
              (IF req.method = "tools/call" THEN {} ELSE {Some(BadDoc)}),
     error : {None, Some(MethodNotFound)}]
    \cup {[id |-> 0, result |-> Some(GoodDoc(req)), error |-> None]}

----------------------------------------------------------------------------
(* The Transport. *)

\* write_all on the child's stdin succeeds while the child holds the read end
StdinOpen == child \in {"running", "stdout_closed"}

\* a read_line that returns at once, whether the child has answered or not
CanRead_NoWait == TRUE

\* read_line returns: a line is buffered, or the stream is at its end
CanRead == stdout /= <<>> \/ child \in {"stdout_closed", "exited"}

\* the request whose answer the client is waiting for
Pending == stdin[Len(stdin)]

----------------------------------------------------------------------------
(* The Protocol Client. *)

\* a counter that is handed out and never advanced
NextId_Stuck(counter) == counter

NextId(counter) == counter + 1

\* an initialize that decodes the result before it looks for an error object
InitializeOutcome_ResultFirst(line) ==
    IF IsSome(line.result)
    THEN IF Unwrap(line.result) = InitializeResultDoc
         THEN Ok("")
         ELSE Err("DecodeError", "Tool sent invalid initialize result format")
    ELSE IF IsSome(line.error)
         THEN Err("ProtocolError", "MCP Init Error: " \o Unwrap(line.error).message)
         ELSE Err("EmptyResult", "Tool returned no result for initialize")

InitializeOutcome(line) ==
    IF IsSome(line.error)
    THEN Err("ProtocolError", "MCP Init Error: " \o Unwrap(line.error).message)
    ELSE IF IsSome(line.result)
         THEN IF Unwrap(line.result) = InitializeResultDoc
              THEN Ok("")
              ELSE Err("DecodeError", "Tool sent invalid initialize result format")
         ELSE Err("EmptyResult", "Tool returned no result for initialize")

\* a list_tools that takes a reply without a result for an empty tool list
ListToolsOutcome_EmptyOnMissing(line) ==
    IF IsSome(line.result)
    THEN IF Unwrap(line.result) = ListToolsResultDoc
         THEN Ok(ListToolsResultDoc)
         ELSE Err("DecodeError", "Invalid tools list format")
    ELSE Ok("{tools:[]}")

ListToolsOutcome(line) ==
    IF IsSome(line.result)
    THEN IF Unwrap(line.result) = ListToolsResultDoc
         THEN Ok(ListToolsResultDoc)
         ELSE Err("DecodeError", "Invalid tools list format")
    ELSE Err("EmptyResult", "Server returned error or no result")

CallToolOutcome(line) ==
    IF IsSome(line.error)
    THEN Err("ToolExecutionError", "Tool Execution Error: " \o Unwrap(line.error).message)
    ELSE IF IsSome(line.result)
         THEN Ok(Unwrap(line.result))
         ELSE Err("EmptyResult", "Tool returned no result")

\* a call_tool that goes to the transport without asking the gate
CallToolPasses_Unchecked(cfg, tool_name) == TRUE

\* the gate of call_tool: TRUE when the call goes on to the transport
CallToolPasses(cfg, tool_name) == check_permission(cfg, tool_name)

\* What an operation returned, with the request it wrote and the line it decoded.
OpResult(op, tool_name, res, req_id, line) ==
    [op |-> op, tool_name |-> tool_name, res |-> res, req_id |-> req_id,
     line_id |-> IF IsSome(line) THEN Some(Unwrap(line).id) ELSE None,
     line |-> line]

NoOp == OpResult("none", "", NoResult, None, None)

----------------------------------------------------------------------------
(* Messages of the transcript and replies of the completion service. *)

Message(role, content, calls, id) ==
    [role |-> role, content |-> content, tool_calls |-> calls, tool_call_id |-> id]

SystemMessage == Message("system", Some("You are AETHER."), None, None)

\* The calls the completion service may request (function.name and
\* function.arguments): calculate_sum with well-formed and with cut-off
\* argument text, and a tool the tool process does not have.
CallChoices ==
    { [name |-> "calculate_sum", arguments |-> "{ \"a\": 2, \"b\": 2 }"],
      [name |-> "calculate_sum", arguments |-> "{\"a\": 2,"],
      [name |-> "shell", arguments |-> "{ \"cmd\": \"ls\" }"] }

\* a parse that hands the argument text on as it came
ParseArguments_Raw(text) == text

\* serde_json::from_str(arguments).unwrap_or(json!({})): the parsed document
\* in canonical form, the empty document for text that is no JSON
ParseArguments(text) ==
    IF text = "{ \"a\": 2, \"b\": 2 }" THEN "{a:2,b:2}"
    ELSE IF text = "{ \"cmd\": \"ls\" }" THEN "{cmd:ls}"
    ELSE "{}"

RECURSIVE RequestedCalls(_)
\* the tool calls the completion service has requested in a transcript
RequestedCalls(h) ==
    IF h = <<>> THEN 0
    ELSE (IF IsSome(h[Len(h)].tool_calls) THEN Len(Unwrap(h[Len(h)].tool_calls)) ELSE 0)
         + RequestedCalls(SubSeq(h, 1, Len(h) - 1))

\* lists of n tool calls; the service numbers its calls, so ids are fresh
CallLists(first_id, n) ==
    {[i \in 1..n |-> [id |-> first_id + i - 1, name |-> c[i].name,
                      arguments |-> c[i].arguments]] : c \in [1..n -> CallChoices]}

\* the tool calls one more reply may request on transcript h: the reply, one
\* tool message per call and the final answer must fit
Room(h) ==
    IF MaxTranscript - Len(h) - 2 < MaxCalls
    THEN MaxTranscript - Len(h) - 2
    ELSE MaxCalls

\* the replies the completion service may give to a transcript
Replies(h) ==
    {Message("assistant", Some("answer"), None, None)} \cup
    {Message("assistant", None, Some(s), None) :
        s \in UNION {CallLists(RequestedCalls(h) + 1, n) : n \in 0..Room(h)}}

\* what the user types before the n-th Enter that sends a line
UserLine(n) == <<"user line", n>>

\* an input line of spaces only
BlankLine == <<"   ", 0>>

\* a test that takes every input line for text
IsBlank_Never(input) == FALSE

\* input.trim().is_empty()
IsBlank(input) == input[1] \in {"", "   "}

----------------------------------------------------------------------------
(* Marks of a turn. *)

TurnMarks(n) ==
    [n |-> n, h0 |-> Len(history), ui0 |-> Len(tx_ui), w0 |-> Len(stdin),
     l0 |-> Len(llm_reqs), closed_call |-> None, ui_closed |-> ~tx_agent_open]

----------------------------------------------------------------------------
(* Startup: main, "BRAIN INITIALIZATION". *)

Init ==
    /\ orch \in {"main", "agent"}
    /\ pc = "load"
    /\ security = [version |-> "1.0", global_policy |-> "deny", rules |-> {}]
    /\ gate = NoGate
    /\ child = "none"
    /\ stdin = <<>>
    /\ child_pos = 0
    /\ stdout = <<>>
    /\ request_id_counter = 0
    /\ last_result = NoOp
    /\ tools = <<>>
    /\ history = <<>>
    /\ tool_calls = <<>>
    /\ call_idx = 0
    /\ rx_agent = <<>>
    /\ tx_agent_open = TRUE
    /\ tx_ui = <<>>
    /\ llm_reqs = <<>>
    /\ last_llm = "none"
    /\ turn = [n |-> 0, h0 |-> 0, ui0 |-> 0, w0 |-> 0, l0 |-> 0, closed_call |-> None,
            ui_closed |-> FALSE]

\* A. Load Security
LoadSecurity ==
    /\ pc = "load"
    /\ \/ /\ security' \in LoadedPolicies
          /\ tx_ui' = Append(tx_ui, "Log")
          /\ pc' = "spawn"
       \/ /\ tx_ui' = tx_ui \o <<"Log", "Error">>
          /\ pc' = "failed"
          /\ UNCHANGED security
    /\ UNCHANGED <<orch, gate, child, stdin, child_pos, stdout, request_id_counter,
                   last_result, tools, history, tool_calls, call_idx, rx_agent,
                   tx_agent_open, llm_reqs, last_llm, turn>>

\* B. Connect Tool, and McpClient::new
StartProcess ==
    /\ pc = "spawn"
    /\ \/ /\ child' = "running"
          /\ request_id_counter' = 0
          /\ pc' = "handshake"
          /\ UNCHANGED tx_ui
       \/ /\ tx_ui' = Append(tx_ui, "Error")
          /\ pc' = "failed"
          /\ UNCHANGED <<child, request_id_counter>>
    /\ UNCHANGED <<orch, security, gate, stdin, child_pos, stdout, last_result, tools,
                   history, tool_calls, call_idx, rx_agent, tx_agent_open, llm_reqs,
                   last_llm, turn>>

\* C. Handshake: McpClient::initialize, up to the write of its request
InitializeSend ==
    /\ pc = "handshake"
    /\ request_id_counter' = NextId(request_id_counter)
    /\ IF StdinOpen
       THEN /\ stdin' = Append(stdin, JsonRpcRequest("initialize", Some("InitializeParams"),
                                                     request_id_counter'))
            /\ pc' = "handshake_wait"
            /\ UNCHANGED <<last_result, tx_ui>>
       ELSE /\ last_result' = OpResult("initialize", "", TransportIo,
                                       Some(request_id_counter'), None)
            /\ tx_ui' = Append(tx_ui, "Error")
            /\ pc' = "failed"
            /\ UNCHANGED stdin
    /\ UNCHANGED <<orch, security, gate, child, child_pos, stdout, tools, history,
                   tool_calls, call_idx, rx_agent, tx_agent_open, llm_reqs, last_llm,
                   turn>>

\* where the task goes after a handshake that succeeded
AfterHandshake == IF orch = "main" THEN "list" ELSE "llm_new"

\* McpClient::initialize from read_line on, and main's "Handshake Fail"
InitializeRecv ==
    /\ pc = "handshake_wait"
    /\ CanRead
    /\ LET res == IF stdout /= <<>> THEN InitializeOutcome(Head(stdout))
                  ELSE TransportClosed
           line == IF stdout /= <<>> THEN Some(Head(stdout)) ELSE None
       IN /\ last_result' = OpResult("initialize", "", res, Some(Pending.id), line)
          /\ stdout' = IF stdout /= <<>> THEN Tail(stdout) ELSE stdout
          /\ IF res.ok
             THEN pc' = AfterHandshake /\ UNCHANGED tx_ui
             ELSE pc' = "failed" /\ tx_ui' = Append(tx_ui, "Error")
    /\ UNCHANGED <<orch, security, gate, child, stdin, child_pos, request_id_counter,
                   tools, history, tool_calls, call_idx, rx_agent, tx_agent_open,
                   llm_reqs, last_llm, turn>>

\* What follows a list_tools that returned res.  main reports the failure and
\* goes on with no tools; Agent::run reports it and returns.
ListToolsDone(res, ui) ==
    IF orch = "main"
    THEN /\ tools' = IF res.ok THEN <<"calculate_sum">> ELSE <<>>
         /\ tx_ui' = ui \o (IF res.ok THEN <<"Log">> ELSE <<"Error", "Log">>)
         /\ pc' = "llm_new"
         /\ UNCHANGED history
    ELSE IF res.ok
         THEN /\ tools' = <<"calculate_sum">>
              /\ tx_ui' = Append(ui, "Log")
              /\ history' = <<SystemMessage>>
              /\ pc' = "idle"
         ELSE /\ tx_ui' = Append(ui, "Error")
              /\ pc' = "failed"
              /\ UNCHANGED <<tools, history>>

\* D. List Tools: McpClient::list_tools, up to the write of its request
ListToolsSend ==
    /\ pc = "list"
    /\ request_id_counter' = NextId(request_id_counter)
    /\ LET ui == IF orch = "agent" THEN Append(tx_ui, "Log") ELSE tx_ui
       IN IF StdinOpen
          THEN /\ stdin' = Append(stdin, JsonRpcRequest("tools/list", None,
                                                        request_id_counter'))
               /\ pc' = "list_wait"
               /\ tx_ui' = ui
               /\ UNCHANGED <<last_result, tools, history>>
          ELSE /\ last_result' = OpResult("list_tools", "", TransportIo,
                                          Some(request_id_counter'), None)
               /\ ListToolsDone(TransportIo, ui)
               /\ UNCHANGED stdin
    /\ UNCHANGED <<orch, security, gate, child, child_pos, stdout, tool_calls, call_idx,
                   rx_agent, tx_agent_open, llm_reqs, last_llm, turn>>

\* McpClient::list_tools from read_line on
ListToolsRecv ==
    /\ pc = "list_wait"
    /\ CanRead
    /\ LET res == IF stdout /= <<>> THEN ListToolsOutcome(Head(stdout))
                  ELSE TransportClosed
           line == IF stdout /= <<>> THEN Some(Head(stdout)) ELSE None
       IN /\ last_result' = OpResult("list_tools", "", res, Some(Pending.id), line)
          /\ stdout' = IF stdout /= <<>> THEN Tail(stdout) ELSE stdout
          /\ ListToolsDone(res, tx_ui)
    /\ UNCHANGED <<orch, security, gate, child, stdin, child_pos, request_id_counter,
                   tool_calls, call_idx, rx_agent, tx_agent_open, llm_reqs, last_llm,
                   turn>>

\* E. Connect LLM: LlmClient::new
LlmNew ==
    /\ pc = "llm_new"
    /\ \/ IF orch = "main"
          THEN /\ tx_ui' = Append(tx_ui, "Log")
               /\ history' = <<SystemMessage>>
               /\ pc' = "idle"
          ELSE /\ pc' = "list"
               /\ UNCHANGED <<tx_ui, history>>
       \/ /\ tx_ui' = Append(tx_ui, "Error")
          /\ pc' = "failed"
          /\ UNCHANGED history
    /\ UNCHANGED <<orch, security, gate, child, stdin, child_pos, stdout,
                   request_id_counter, last_result, tools, tool_calls, call_idx,
                   rx_agent, tx_agent_open, llm_reqs, last_llm, turn>>

----------------------------------------------------------------------------
(* The conversation loop: main "CONVERSATION LOOP", Agent::run, Agent::cycle. *)

\* llm.send_completion(history, tools): the request as the service sees it
CompletionRequest(h, tool_list) == [messages |-> Len(h), tools |-> tool_list]

\* the tool list of the final-answer request: &[]
FinalTools == <<>>

\* rx_agent.recv() returned a line: push it and ask the completion service
Dequeue ==
    /\ pc = "idle"
    /\ rx_agent /= <<>>
    /\ Len(history) + 2 <= MaxTranscript
    /\ turn' = TurnMarks(turn.n + 1)
    /\ rx_agent' = Tail(rx_agent)
    /\ tx_ui' = Append(tx_ui, "Log")
    /\ history' = Append(history, Message("user", Some(Head(rx_agent)), None, None))
    /\ llm_reqs' = Append(llm_reqs, CompletionRequest(history', tools))
    /\ pc' = "thinking"
    /\ last_result' = NoOp
    /\ UNCHANGED <<orch, security, gate, child, stdin, child_pos, stdout,
                   request_id_counter, tools, tool_calls, call_idx, tx_agent_open,
                   last_llm>>

\* rx_agent.recv() returned None: the loop ends and the task returns
ChannelClosed ==
    /\ pc = "idle"
    /\ rx_agent = <<>>
    /\ ~tx_agent_open
    /\ pc' = "done"
    /\ UNCHANGED <<orch, security, gate, child, stdin, child_pos, stdout,
                   request_id_counter, last_result, tools, history, tool_calls,
                   call_idx, rx_agent, tx_agent_open, tx_ui, llm_reqs, last_llm, turn>>

\* The loop over tool_calls moves on from position i of calls, on transcript h:
\* to the next call, or after the last one to the final-answer request.
NextCall(calls, i, h) ==
    IF i < Len(calls)
    THEN /\ call_idx' = i + 1
         /\ pc' = "exec"
         /\ UNCHANGED llm_reqs
    ELSE /\ call_idx' = 0
         /\ llm_reqs' = Append(llm_reqs, CompletionRequest(h, FinalTools))
         /\ pc' = "final_wait"

\* The first completion of a turn returned.
Think ==
    /\ pc = "thinking"
    /\ \/ \E response \in Replies(history) :
            /\ last_llm' = "ok"
            /\ history' = Append(history, response)
            /\ IF IsSome(response.tool_calls)
               THEN /\ tx_ui' = Append(tx_ui, "Log")
                    /\ tool_calls' = Unwrap(response.tool_calls)
                    /\ NextCall(tool_calls', 0, history')
               ELSE /\ tx_ui' = Append(tx_ui, "Ai")
                    /\ pc' = "idle"
                    /\ UNCHANGED <<tool_calls, call_idx, llm_reqs>>
       \/ /\ last_llm' = "failed"
          /\ tx_ui' = Append(tx_ui, "Error")
          /\ pc' = "idle"
          /\ UNCHANGED <<history, tool_calls, call_idx, llm_reqs>>
    /\ UNCHANGED <<orch, security, gate, child, stdin, child_pos, stdout,
                   request_id_counter, last_result, tools, rx_agent, tx_agent_open,
                   turn>>

\* the events one tool call sends once call_tool returned res
ResultEvents(res) ==
    IF orch = "main" THEN (IF res.ok THEN <<"Log">> ELSE <<"Error">>) ELSE <<"Log">>

\* a tool message that drops the id of its call
ToolMessage_NoCallId(call, res) ==
    Message("tool",
            Some(IF res.ok THEN res.text ELSE "Error: " \o res.text),
            None, None)

\* a tool message that numbers itself instead of carrying the id of its call
ToolMessage_OwnId(call, res) ==
    Message("tool",
            Some(IF res.ok THEN res.text ELSE "Error: " \o res.text),
            None, Some(call.id + 1))

\* the tool message pushed for a call
ToolMessage(call, res) ==
    Message("tool",
            Some(IF res.ok THEN res.text ELSE "Error: " \o res.text),
            None, Some(call.id))

\* a loop that gives the turn up at the first call that fails
FinishCall_AbortOnError(res, ui) ==
    IF res.ok
    THEN /\ tx_ui' = ui \o ResultEvents(res)
         /\ history' = Append(history, ToolMessage(tool_calls[call_idx], res))
         /\ NextCall(tool_calls, call_idx, history')
    ELSE /\ tx_ui' = Append(ui, "Error")
         /\ pc' = "idle"
         /\ call_idx' = 0
         /\ UNCHANGED <<history, llm_reqs>>

\* a loop whose task returns when a send on the display channel fails
FinishCall_SendChecked(res, ui) ==
    IF tx_agent_open
    THEN /\ tx_ui' = ui \o ResultEvents(res)
         /\ history' = Append(history, ToolMessage(tool_calls[call_idx], res))
         /\ NextCall(tool_calls, call_idx, history')
    ELSE /\ tx_ui' = ui
         /\ pc' = "failed"
         /\ UNCHANGED <<history, call_idx, llm_reqs>>

\* call_tool returned res for the call at call_idx: report, push, move on
FinishCall(res, ui) ==
    /\ tx_ui' = ui \o ResultEvents(res)
    /\ history' = Append(history, ToolMessage(tool_calls[call_idx], res))
    /\ NextCall(tool_calls, call_idx, history')

\* a call_tool that takes the request id before it asks the gate
CallToolSend_IdBeforeGate ==
    /\ pc = "exec"
    /\ LET call == tool_calls[call_idx]
           args == ParseArguments(call.arguments)
           ui == Append(tx_ui, "Log")
       IN /\ gate' = [tool_name |-> call.name,
                      verdict |-> check_permission(security, call.name)]
          /\ IF ~CallToolPasses(security, call.name)
             THEN /\ last_result' = OpResult("call_tool", call.name,
                                             PermissionDenied(call.name), None, None)
                  /\ FinishCall(PermissionDenied(call.name), ui)
                  /\ request_id_counter' = NextId(request_id_counter)
                  /\ UNCHANGED <<stdin, turn>>
             ELSE /\ request_id_counter' = NextId(request_id_counter)
                  /\ turn' = IF child = "stdout_closed" /\ turn.closed_call = None
                             THEN [turn EXCEPT !.closed_call = Some(call_idx)]
                             ELSE turn
                  /\ IF StdinOpen
                     THEN /\ stdin' = Append(stdin,
                                 JsonRpcRequest("tools/call",
                                     Some([name |-> call.name, arguments |-> args]),
                                     request_id_counter'))
                          /\ tx_ui' = ui
                          /\ pc' = "call_wait"
                          /\ UNCHANGED <<last_result, history, call_idx, llm_reqs>>
                     ELSE /\ last_result' = OpResult("call_tool", call.name, TransportIo,
                                                     Some(request_id_counter'), None)
                          /\ FinishCall(TransportIo, ui)
                          /\ UNCHANGED stdin
    /\ UNCHANGED <<orch, security, child, child_pos, stdout, tools, tool_calls,
                   rx_agent, tx_agent_open, last_llm>>

\* One pass of the loop over tool_calls, up to call_tool's write.
CallToolSend ==
    /\ pc = "exec"
    /\ LET call == tool_calls[call_idx]
           args == ParseArguments(call.arguments)
           ui == Append(tx_ui, "Log")
       IN /\ gate' = [tool_name |-> call.name,
                      verdict |-> check_permission(security, call.name)]
          /\ IF ~CallToolPasses(security, call.name)
             THEN /\ last_result' = OpResult("call_tool", call.name,
                                             PermissionDenied(call.name), None, None)
                  /\ FinishCall(PermissionDenied(call.name), ui)
                  /\ UNCHANGED <<request_id_counter, stdin, turn>>
             ELSE /\ request_id_counter' = NextId(request_id_counter)
                  /\ turn' = IF child = "stdout_closed" /\ turn.closed_call = None
                             THEN [turn EXCEPT !.closed_call = Some(call_idx)]
                             ELSE turn
                  /\ IF StdinOpen
                     THEN /\ stdin' = Append(stdin,
                                 JsonRpcRequest("tools/call",
                                     Some([name |-> call.name, arguments |-> args]),
                                     request_id_counter'))
                          /\ tx_ui' = ui
                          /\ pc' = "call_wait"
                          /\ UNCHANGED <<last_result, history, call_idx, llm_reqs>>
                     ELSE /\ last_result' = OpResult("call_tool", call.name, TransportIo,
                                                     Some(request_id_counter'), None)
                          /\ FinishCall(TransportIo, ui)
                          /\ UNCHANGED stdin
    /\ UNCHANGED <<orch, security, child, child_pos, stdout, tools, tool_calls,
                   rx_agent, tx_agent_open, last_llm>>

\* call_tool from read_line on, and the rest of the pass.
CallToolRecv ==
    /\ pc = "call_wait"
    /\ CanRead
    /\ LET res == IF stdout /= <<>> THEN CallToolOutcome(Head(stdout))
                  ELSE TransportClosed
           line == IF stdout /= <<>> THEN Some(Head(stdout)) ELSE None
       IN /\ last_result' = OpResult("call_tool", tool_calls[call_idx].name, res,
                                     Some(Pending.id), line)
          /\ stdout' = IF stdout /= <<>> THEN Tail(stdout) ELSE stdout
          /\ FinishCall(res, tx_ui)
    /\ UNCHANGED <<orch, security, gate, child, stdin, child_pos, request_id_counter,
                   tools, tool_calls, rx_agent, tx_agent_open, last_llm, turn>>

\* a final-answer step that rolls the transcript back to the start of the
\* turn when the completion fails
FinalAnswer_RollsBack ==
    /\ pc = "final_wait"
    /\ \/ \E final_res \in Replies(history) :
            /\ last_llm' = "ok"
            /\ tx_ui' = Append(tx_ui, "Ai")
            /\ history' = Append(history, final_res)
       \/ /\ last_llm' = "failed"
          /\ tx_ui' = IF orch = "agent" THEN Append(tx_ui, "Error") ELSE tx_ui
          /\ history' = SubSeq(history, 1, turn.h0)
    /\ pc' = "idle"
    /\ tool_calls' = <<>>
    /\ last_result' = NoOp
    /\ gate' = NoGate
    /\ UNCHANGED <<orch, security, child, stdin, child_pos, stdout,
                   request_id_counter, tools, call_idx, rx_agent, tx_agent_open,
                   llm_reqs, turn>>

\* The final-answer completion returned; the turn's locals go out of scope.
FinalAnswer ==
    /\ pc = "final_wait"
    /\ \/ \E final_res \in Replies(history) :
            /\ last_llm' = "ok"
            /\ tx_ui' = Append(tx_ui, "Ai")
            /\ history' = Append(history, final_res)
       \/ /\ last_llm' = "failed"
          /\ tx_ui' = IF orch = "agent" THEN Append(tx_ui, "Error") ELSE tx_ui
          /\ UNCHANGED history
    /\ pc' = "idle"
    /\ tool_calls' = <<>>
    /\ last_result' = NoOp
    /\ gate' = NoGate
    /\ UNCHANGED <<orch, security, child, stdin, child_pos, stdout,
                   request_id_counter, tools, call_idx, rx_agent, tx_agent_open,
                   llm_reqs, turn>>

----------------------------------------------------------------------------
(* The environment: the tool process and the terminal. *)

\* the tool process reads one request and writes one response line
ChildRespond ==
    /\ child = "running"
    /\ child_pos < Len(stdin)
    /\ child_pos' = child_pos + 1
    /\ \E line \in ResponseLines(stdin[child_pos + 1]) : stdout' = Append(stdout, line)
    /\ UNCHANGED <<orch, pc, security, gate, child, stdin, request_id_counter,
                   last_result, tools, history, tool_calls, call_idx, rx_agent,
                   tx_agent_open, tx_ui, llm_reqs, last_llm, turn>>

\* the tool process closes its output stream and keeps running
ChildCloseStdout ==
    /\ child = "running"
    /\ child' = "stdout_closed"
    /\ UNCHANGED <<orch, pc, security, gate, stdin, child_pos, stdout,
                   request_id_counter, last_result, tools, history, tool_calls,
                   call_idx, rx_agent, tx_agent_open, tx_ui, llm_reqs, last_llm, turn>>

\* the tool process exits: both of its pipe ends close
ChildExit ==
    /\ child \in {"running", "stdout_closed"}
    /\ child' = "exited"
    /\ UNCHANGED <<orch, pc, security, gate, stdin, child_pos, stdout,
                   request_id_counter, last_result, tools, history, tool_calls,
                   call_idx, rx_agent, tx_agent_open, tx_ui, llm_reqs, last_llm, turn>>

\* the lines the terminal has sent so far
Submitted == turn.n + Len(rx_agent)

\* App::on_enter: a line that is not blank is sent to the orchestrator
OnEnter ==
    /\ tx_agent_open
    /\ Submitted < MaxTurns
    /\ \E input \in {UserLine(Submitted + 1), BlankLine} :
          rx_agent' = IF ~IsBlank(input) THEN Append(rx_agent, input) ELSE rx_agent
    /\ UNCHANGED <<orch, pc, security, gate, child, stdin, child_pos, stdout,
                   request_id_counter, last_result, tools, history, tool_calls,
                   call_idx, tx_agent_open, tx_ui, llm_reqs, last_llm, turn>>

\* run_tui returns (Esc): the App with the sender of the user-text channel and
\* the receiver of the display events are dropped
Quit ==
    /\ tx_agent_open
    /\ tx_agent_open' = FALSE
    /\ UNCHANGED <<orch, pc, security, gate, child, stdin, child_pos, stdout,
                   request_id_counter, last_result, tools, history, tool_calls,
                   call_idx, rx_agent, tx_ui, llm_reqs, last_llm, turn>>

\* the awaits the orchestrator task parks on: read_line, recv, send_completion
Parked == {"handshake_wait", "list_wait", "idle", "thinking", "call_wait", "final_wait"}

\* main returns once run_tui has returned: the runtime is dropped, and the
\* spawned task with it, at the await it is parked on
RuntimeDrop ==
    /\ orch = "main"
    /\ ~tx_agent_open
    /\ pc \in Parked
    /\ pc' = "cancelled"
    /\ UNCHANGED <<orch, security, gate, child, stdin, child_pos, stdout,
                   request_id_counter, last_result, tools, history, tool_calls,
                   call_idx, rx_agent, tx_agent_open, tx_ui, llm_reqs, last_llm, turn>>

----------------------------------------------------------------------------

Next ==
    \/ LoadSecurity
    \/ StartProcess
    \/ InitializeSend
    \/ InitializeRecv
    \/ ListToolsSend
    \/ ListToolsRecv
    \/ LlmNew
    \/ Dequeue
    \/ ChannelClosed
    \/ Think
    \/ CallToolSend
    \/ CallToolRecv
    \/ FinalAnswer
    \/ ChildRespond
    \/ ChildCloseStdout
    \/ ChildExit
    \/ OnEnter
    \/ Quit
    \/ RuntimeDrop

Spec == Init /\ [][Next]_vars

\* the steps of the orchestrator task
TaskStep ==
    \/ LoadSecurity
    \/ StartProcess
    \/ InitializeSend
    \/ InitializeRecv
    \/ ListToolsSend
    \/ ListToolsRecv
    \/ LlmNew
    \/ Dequeue
    \/ ChannelClosed
    \/ Think
    \/ CallToolSend
    \/ CallToolRecv
    \/ FinalAnswer

\* The runtime polls the task whenever it can go on.  Nothing obliges the
\* tool process or the terminal to take a step.
SpecLive == Spec /\ WF_vars(TaskStep)

\* The task has returned or was dropped after McpClient::new: the client, its
\* McpProcess and with it the Child handle and both pipe ends are dropped.
\* McpProcess has no Drop of its own and start() sets no kill_on_drop, so the
\* drop closes the pipes and sends the child nothing.
ClientDropped == pc \in {"failed", "done", "cancelled"} /\ child /= "none"

----------------------------------------------------------------------------
(* The Security Gate on its own: every policy document over the two tool    *)
(* names and the policy values, asked about every name.                     *)

GateNames == ToolNames \cup {"unlisted_tool"}

InitGate ==
    /\ orch = "main"
    /\ pc = "gate"
    /\ security \in SecurityConfig
    /\ gate = NoGate
    /\ child = "none"
    /\ stdin = <<>>
    /\ child_pos = 0
    /\ stdout = <<>>
    /\ request_id_counter = 0
    /\ last_result = NoOp
    /\ tools = <<>>
    /\ history = <<>>
    /\ tool_calls = <<>>
    /\ call_idx = 0
    /\ rx_agent = <<>>
    /\ tx_agent_open = TRUE
    /\ tx_ui = <<>>
    /\ llm_reqs = <<>>
    /\ last_llm = "none"
    /\ turn = [n |-> 0, h0 |-> 0, ui0 |-> 0, w0 |-> 0, l0 |-> 0, closed_call |-> None,
            ui_closed |-> FALSE]

\* self.security.check_permission(tool_name)
GateCheck ==
    /\ pc = "gate"
    /\ \E tool_name \in GateNames :
          gate' = [tool_name |-> tool_name,
                   verdict |-> check_permission(security, tool_name)]
    /\ pc' = "gate_done"
    /\ UNCHANGED <<orch, security, child, stdin, child_pos, stdout, request_id_counter,
                   last_result, tools, history, tool_calls, call_idx, rx_agent,
                   tx_agent_open, tx_ui, llm_reqs, last_llm, turn>>

NextGate == GateCheck

SpecGate == InitGate /\ [][NextGate]_vars

----------------------------------------------------------------------------
(* The tool process of the repository, mock_tool, on its own: it is fed      *)
(* request lines, of the methods it knows and of others, with and without a  *)
(* usable id, and answers them as its main does.                             *)

\* json["id"].as_u64().unwrap_or(1); an id that is no u64 is modelled as -1
MockId(req) == IF req.id >= 0 THEN req.id ELSE 1

\* the line mock_tool writes for a request line, None when it writes none
MockToolResponse(req) ==
    IF req.method = "initialize"
    THEN Some([id |-> MockId(req), result |-> Some(InitializeResultDoc), error |-> None])
    ELSE IF req.method = "tools/list"
    THEN Some([id |-> MockId(req), result |-> Some(ListToolsResultDoc), error |-> None])
    ELSE IF req.method = "tools/call"
    THEN IF Unwrap(req.params).name = "calculate_sum"
         THEN Some([id |-> MockId(req), result |-> Some(CallResultDoc(req)),
                    error |-> None])
         ELSE Some([id |-> MockId(req), result |-> None, error |-> Some(MethodNotFound)])
    ELSE None

\* methods mock_tool has no branch for
OtherMethods == {"ping", "resources/list"}

InitTool ==
    /\ orch = "main"
    /\ pc = "tool"
    /\ security = [version |-> "1.0", global_policy |-> "deny", rules |-> {}]
    /\ gate = NoGate
    /\ child = "running"
    /\ stdin = <<>>
    /\ child_pos = 0
    /\ stdout = <<>>
    /\ request_id_counter = 0
    /\ last_result = NoOp
    /\ tools = <<>>
    /\ history = <<>>
    /\ tool_calls = <<>>
    /\ call_idx = 0
    /\ rx_agent = <<>>
    /\ tx_agent_open = TRUE
    /\ tx_ui = <<>>
    /\ llm_reqs = <<>>
    /\ last_llm = "none"
    /\ turn = [n |-> 0, h0 |-> 0, ui0 |-> 0, w0 |-> 0, l0 |-> 0, closed_call |-> None,
               ui_closed |-> FALSE]

\* a peer writes one request line to the tool's stdin
ToolFeed ==
    /\ child = "running"
    /\ Len(stdin) < MaxToolRequests
    /\ \E id \in {1, 2, -1} :
          \/ stdin' = Append(stdin, JsonRpcRequest("initialize",
                                                   Some("InitializeParams"), id))
          \/ stdin' = Append(stdin, JsonRpcRequest("tools/list", None, id))
          \/ \E name \in ToolNames : \E arguments \in {"{a:2,b:2}", "{}"} :
                stdin' = Append(stdin,
                    JsonRpcRequest("tools/call",
                                   Some([name |-> name, arguments |-> arguments]), id))
          \/ \E method \in OtherMethods :
                stdin' = Append(stdin, JsonRpcRequest(method, None, id))
    /\ UNCHANGED <<orch, pc, security, gate, child, child_pos, stdout,
                   request_id_counter, last_result, tools, history, tool_calls,
                   call_idx, rx_agent, tx_agent_open, tx_ui, llm_reqs, last_llm, turn>>

\* one pass of mock_tool's loop: read a line, answer it
MockToolStep ==
    /\ child = "running"
    /\ child_pos < Len(stdin)
    /\ child_pos' = child_pos + 1
    /\ LET response == MockToolResponse(stdin[child_pos + 1])
       IN stdout' = IF IsSome(response) THEN Append(stdout, Unwrap(response)) ELSE stdout
    /\ UNCHANGED <<orch, pc, security, gate, child, stdin, request_id_counter,
                   last_result, tools, history, tool_calls, call_idx, rx_agent,
                   tx_agent_open, tx_ui, llm_reqs, last_llm, turn>>

\* read_line returns Ok(0): the peer closed stdin, the loop breaks, main returns
MockToolEof ==
    /\ child = "running"
    /\ child_pos = Len(stdin)
    /\ child' = "exited"
    /\ UNCHANGED <<orch, pc, security, gate, stdin, child_pos, stdout,
                   request_id_counter, last_result, tools, history, tool_calls,
                   call_idx, rx_agent, tx_agent_open, tx_ui, llm_reqs, last_llm, turn>>

NextTool ==
    \/ ToolFeed
    \/ MockToolStep
    \/ MockToolEof

SpecTool == InitTool /\ [][NextTool]_vars

----------------------------------------------------------------------------
(* What the properties below speak about. *)

\* how many events of kind k a sequence of display events holds
Count(events, k) == Cardinality({i \in DOMAIN events : events[i] = k})

\* the last turn is over: the loop is back at recv(), or has left
TurnOver == turn.n > 0 /\ pc \in {"idle", "done"}

\* what the current turn appended to the transcript, beginning with the user message
TurnHistory == SubSeq(history, turn.h0 + 1, Len(history))

\* the display events, completion requests and transport writes of the current turn
TurnEvents == SubSeq(tx_ui, turn.ui0 + 1, Len(tx_ui))

TurnRequests == SubSeq(llm_reqs, turn.l0 + 1, Len(llm_reqs))

TurnWrites == SubSeq(stdin, turn.w0 + 1, Len(stdin))

\* the first completion of the turn succeeded: its reply follows the user message
FirstReplied == Len(TurnHistory) >= 2

FirstCalls ==
    IF IsSome(TurnHistory[2].tool_calls) THEN Unwrap(TurnHistory[2].tool_calls) ELSE <<>>

\* the roles of a sequence of messages that are r
WithRole(h, r) == {i \in DOMAIN h : h[i].role = r}

\* the rule for name in the policy, looked up in the document itself
HasRule(name) == \E p \in security.rules : p[1] = name

----------------------------------------------------------------------------
(* C1: when the gate denies the tool name, call_tool returns the            *)
(* permission-denied error carrying the name and neither writes to nor      *)
(* reads from the transport: the requests written to the child, the lines   *)
(* unread and the lines the child consumed are the same after the call,     *)
(* whatever happened before.                                                *)
C1_DeniedCallLeavesTransport ==
    [][ (/\ pc = "exec"
         /\ tx_ui' /= tx_ui
         /\ ~check_permission(security, tool_calls[call_idx].name))
        => (/\ stdin' = stdin
            /\ stdout' = stdout
            /\ child_pos' = child_pos
            /\ last_result'.op = "call_tool"
            /\ last_result'.res.kind = "PermissionDenied"
            /\ last_result'.tool_name = tool_calls[call_idx].name
            /\ last_result'.res.text =
                 "SECURITY ALERT: Tool '" \o tool_calls[call_idx].name
                    \o "' is blocked by permissions.json") ]_vars

\* a denied call that came after a call that went to the tool process
C1_Witness ==
    /\ last_result.op = "call_tool"
    /\ last_result.res.kind = "PermissionDenied"
    /\ Len(stdin) >= 3

(* C2: the verdict of check_permission is (rule = allow) for a name that has *)
(* a rule, whatever the global policy, and (global_policy = allow) for a     *)
(* name that has none; so a tool left out of the rules is denied under       *)
(* global_policy deny.                                                       *)
C2_GateVerdict ==
    pc = "gate_done" =>
        /\ HasRule(gate.tool_name) =>
              gate.verdict = (<<gate.tool_name, "allow">> \in security.rules)
        /\ ~HasRule(gate.tool_name) =>
              gate.verdict = (security.global_policy = "allow")

\* deny by default: no rule for the name, global policy deny, verdict deny
C2_Witness ==
    /\ pc = "gate_done"
    /\ ~HasRule(gate.tool_name)
    /\ security.rules /= {}
    /\ security.global_policy = "deny"
    /\ gate.verdict = FALSE

(* C3: in the transcript, every assistant message with a non-empty          *)
(* tool_calls list that a later user message follows is followed directly   *)
(* by one tool message per call, in the order of the calls.                 *)
C3_CallsAnsweredBeforeNextUser ==
    \A i \in WithRole(history, "assistant") :
        (/\ IsSome(history[i].tool_calls)
         /\ Unwrap(history[i].tool_calls) /= <<>>
         /\ \E j \in WithRole(history, "user") : j > i)
        => \A m \in 1..Len(Unwrap(history[i].tool_calls)) :
              /\ i + m <= Len(history)
              /\ history[i + m].role = "tool"
              /\ history[i + m].tool_call_id = Some(Unwrap(history[i].tool_calls)[m].id)

\* what C4 says of a finished turn whose first reply requested k >= 1 calls,
\* but for the number of Ai events
ToolTurnShape ==
    LET k == Len(FirstCalls)
    IN /\ Cardinality(WithRole(TurnHistory, "tool")) = k
       /\ \A i \in 1..k :
             /\ TurnHistory[2 + i].role = "tool"
             /\ TurnHistory[2 + i].tool_call_id = Some(FirstCalls[i].id)
       /\ Len(TurnRequests) = 2
       /\ TurnRequests[2].tools = <<>>
       /\ TurnRequests[2].messages = turn.h0 + 2 + k

(* C4 as stated: a turn whose first reply carries k >= 1 tool calls appends  *)
(* exactly k tool messages, the i-th with the id of the i-th call, then      *)
(* issues exactly one more completion request, with an empty tool list, and  *)
(* sends exactly one Ai event.                                               *)
C4_Original ==
    (TurnOver /\ FirstReplied /\ Len(FirstCalls) >= 1)
    => (ToolTurnShape /\ Count(TurnEvents, "Ai") = 1)

(* C4 as amended: the same, with exactly one Ai event when the final-answer  *)
(* completion succeeds and none when it fails.                               *)
C4_ToolTurn ==
    (TurnOver /\ FirstReplied /\ Len(FirstCalls) >= 1)
    => /\ ToolTurnShape
       /\ Count(TurnEvents, "Ai") = (IF last_llm = "ok" THEN 1 ELSE 0)
       /\ last_llm = "ok" => TurnEvents[Len(TurnEvents)] = "Ai"

\* a finished turn of two calls with its final answer
C4_Witness ==
    /\ TurnOver
    /\ FirstReplied
    /\ Len(FirstCalls) = 2
    /\ last_llm = "ok"
    /\ Count(TurnEvents, "Ai") = 1

(* C5: a turn whose first reply has no tool calls, the field absent or the   *)
(* list empty, appends exactly one assistant message, sends exactly one Ai   *)
(* event, issues exactly one completion request and writes nothing to the    *)
(* transport.                                                                *)
C5_DirectReply ==
    (TurnOver /\ FirstReplied /\ FirstCalls = <<>>)
    => /\ Cardinality(WithRole(TurnHistory, "assistant")) = 1
       /\ Count(TurnEvents, "Ai") = 1
       /\ Len(TurnRequests) = 1
       /\ TurnWrites = <<>>

(* C6: when the tool process has closed its output stream, the next          *)
(* call_tool that passes the gate fails with the transport-closed error,     *)
(* the turn sends an Error event, and the loop is back at recv() afterwards. *)
C6_ClosedStreamReported ==
    (TurnOver /\ IsSome(turn.closed_call))
    => /\ TurnHistory[2 + Unwrap(turn.closed_call)].content =
             Some("Error: Process closed the connection (EOF)")
       /\ Count(TurnEvents, "Error") >= 1

(* C7: a completion failure, on the first request of a turn or on the        *)
(* final-answer request, ends the turn with an Error event, the loop back    *)
(* at recv(), and the messages the turn appended still in the transcript.    *)
C7_CompletionFailureReported ==
    (TurnOver /\ last_llm = "failed")
    => /\ TurnEvents[Len(TurnEvents)] = "Error"
       /\ TurnHistory[1].role = "user"
       /\ FirstReplied =>
             /\ TurnHistory[2].role = "assistant"
             /\ Len(TurnHistory) = 2 + Len(FirstCalls)
             /\ \A i \in 1..Len(FirstCalls) : TurnHistory[2 + i].role = "tool"

\* the steps before the conversation loop
StartupStages == {"load", "spawn", "handshake", "handshake_wait", "list", "list_wait"}

(* C8: a startup step that fails (policy load, spawn, handshake, tool        *)
(* discovery) is reported once and the task returns: the loop is not         *)
(* entered, no user line is dequeued and no completion is requested.         *)
C8_StartupFailureIsFatal ==
    /\ [][ (pc \in StartupStages /\ Count(tx_ui', "Error") > Count(tx_ui, "Error"))
           => (pc' = "failed" /\ Count(tx_ui', "Error") = 1) ]_vars
    /\ [](pc = "failed" => (turn.n = 0 /\ history = <<>> /\ llm_reqs = <<>>))

(* C9: the response line an operation decodes carries the id of the request  *)
(* that operation wrote.                                                     *)
C9_ResponseAnswersRequest ==
    IsSome(last_result.line_id) => last_result.line_id = last_result.req_id

(* C10: the first request written carries id 1, and the ids of the requests  *)
(* written are strictly increasing.                                          *)
C10_IdsIncrease ==
    /\ stdin /= <<>> => stdin[1].id = 1
    /\ \A i \in 2..Len(stdin) : stdin[i].id > stdin[i - 1].id

\* the handshake, the listing and two tool calls were written
C10_Witness == Len(stdin) >= 4 /\ stdin[4].method = "tools/call"

----------------------------------------------------------------------------
(* Steps of the loop over tool_calls, as the properties below see them. *)

\* this step is the return of call_tool for the call at call_idx: from the
\* gate or a failed write (the pass began at "exec" and did not park), or from
\* read_line
CallReturned ==
    \/ pc = "exec" /\ tx_ui' /= tx_ui /\ pc' /= "call_wait"
    \/ pc = "call_wait" /\ pc' \notin {"call_wait", "cancelled"}

(* C11: a call_tool that fails, by the gate, by an error object in the       *)
(* reply or by a closed transport, does not end the turn: the step appends   *)
(* the tool message "Error: " followed by the error's text, with the id of   *)
(* the call, and the loop goes on to the next call of the reply, or after    *)
(* the last one issues the final-answer request.                             *)
C11_FailedCallContinues ==
    [][ (CallReturned /\ ~last_result'.res.ok)
        => /\ history' = Append(history,
                             Message("tool", Some("Error: " \o last_result'.res.text),
                                     None, Some(tool_calls[call_idx].id)))
           /\ IF call_idx < Len(tool_calls)
              THEN /\ pc' = "exec"
                   /\ call_idx' = call_idx + 1
                   /\ llm_reqs' = llm_reqs
              ELSE /\ pc' = "final_wait"
                   /\ llm_reqs' = Append(llm_reqs,
                                         [messages |-> Len(history'), tools |-> <<>>]) ]_vars

\* a reply of two calls, the first denied by the gate and the second answered
\* with an error object, and the final-answer request issued
C11_Witness ==
    /\ pc = "final_wait"
    /\ Len(tool_calls) = 2
    /\ TurnHistory[3].content = Some("Error: " \o PermissionDenied("shell").text)
    /\ TurnHistory[4].content = Some("Error: Tool Execution Error: Method not found")
    /\ TurnHistory[4].tool_call_id = Some(tool_calls[2].id)
    /\ Len(TurnRequests) = 2

\* the line the last operation decoded
LastLine == Unwrap(last_result.line)

(* C12: whenever an operation (initialize, list_tools, call_tool) decoded a  *)
(* reply that carries an error object and no result, it returned an error,   *)
(* not a result value.                                                       *)
C12_ErrorOnlyNeverResult ==
    (/\ last_result.op \in {"initialize", "list_tools", "call_tool"}
     /\ IsSome(last_result.line)
     /\ IsSome(LastLine.error)
     /\ ~IsSome(LastLine.result))
    => ~last_result.res.ok

\* list_tools, which never looks at the error object, read such a reply
C12_Witness ==
    /\ last_result.op = "list_tools"
    /\ IsSome(last_result.line)
    /\ LastLine.error = Some(MethodNotFound)
    /\ LastLine.result = None
    /\ ~last_result.res.ok

(* C13: initialize decides its outcome in this order: the protocol error     *)
(* when the reply carries an error object, with or without a result; the     *)
(* decode error when the result has not the expected shape; the              *)
(* empty-result error when the reply has neither; and success only for a     *)
(* well-formed result without an error object.  The three errors differ.     *)
C13_InitializeOutcomes ==
    (last_result.op = "initialize" /\ IsSome(last_result.line))
    => /\ IsSome(LastLine.error)
            => /\ last_result.res.kind = "ProtocolError"
               /\ last_result.res.text = "MCP Init Error: Method not found"
       /\ (~IsSome(LastLine.error) /\ IsSome(LastLine.result)
               /\ LastLine.result /= Some(InitializeResultDoc))
            => /\ last_result.res.kind = "DecodeError"
               /\ last_result.res.text = "Tool sent invalid initialize result format"
       /\ (~IsSome(LastLine.error) /\ ~IsSome(LastLine.result))
            => /\ last_result.res.kind = "EmptyResult"
               /\ last_result.res.text = "Tool returned no result for initialize"
       /\ last_result.res.ok
            <=> (~IsSome(LastLine.error) /\ LastLine.result = Some(InitializeResultDoc))

\* the protocol error for a reply that carries a well-formed result as well
C13_Witness ==
    /\ last_result.op = "initialize"
    /\ IsSome(last_result.line)
    /\ LastLine.error = Some(MethodNotFound)
    /\ LastLine.result = Some(InitializeResultDoc)
    /\ last_result.res.kind = "ProtocolError"

(* C14: list_tools fails as initialize does: with the protocol error, which  *)
(* is not the empty-result error, whenever the reply carries an error        *)
(* object, and it returns a tool list only for a well-formed result without  *)
(* an error object.                                                          *)
C14_ListToolsFailsLikeInitialize ==
    (last_result.op = "list_tools" /\ IsSome(last_result.line))
    => /\ IsSome(LastLine.error)
            => /\ ~last_result.res.ok
               /\ last_result.res.kind = "ProtocolError"
       /\ (~IsSome(LastLine.error) /\ ~IsSome(LastLine.result))
            => last_result.res.kind = "EmptyResult"
       /\ last_result.res.ok
            <=> (~IsSome(LastLine.error) /\ LastLine.result = Some(ListToolsResultDoc))

(* C15: the transcript is append-only: in every step, of a turn that fails   *)
(* as of any other, the transcript before the step is a prefix of the        *)
(* transcript after it.                                                      *)
C15_TranscriptAppendOnly ==
    [][ /\ Len(history') >= Len(history)
        /\ SubSeq(history', 1, Len(history)) = history ]_vars

\* a turn that ended in a failed final-answer completion and left its user,
\* assistant and tool messages in the transcript
C15_Witness ==
    /\ TurnOver
    /\ last_llm = "failed"
    /\ Len(TurnHistory) >= 3
    /\ TurnHistory[3].role = "tool"

(* C16: every tool message of the transcript carries a tool_call_id, and     *)
(* that id is the id of a tool call listed by an assistant message earlier   *)
(* in the transcript.                                                        *)
C16_ToolMessagesAnswerCalls ==
    \A i \in WithRole(history, "tool") :
        /\ IsSome(history[i].tool_call_id)
        /\ \E j \in 1..(i - 1) :
              /\ history[j].role = "assistant"
              /\ IsSome(history[j].tool_calls)
              /\ \E m \in DOMAIN Unwrap(history[j].tool_calls) :
                    Unwrap(history[j].tool_calls)[m].id = Unwrap(history[i].tool_call_id)

\* a transcript with the tool messages of two calls, one of them failed
C16_Witness ==
    /\ Cardinality(WithRole(history, "tool")) >= 2
    /\ \E i \in WithRole(history, "tool") :
          history[i].content = Some("Error: Process closed the connection (EOF)")

\* where the task waits for read_line, and where for send_completion
TransportWaits == {"handshake_wait", "list_wait", "call_wait"}

CompletionWaits == {"thinking", "final_wait"}

\* the requests written whose response line the client has not read: the
\* tool process writes one line per request it consumed
Unanswered == Len(stdin) - (child_pos - Len(stdout))

\* One thing at a time: a request is written only when no read and no
\* completion is awaited, and the task then waits for its read; the wait ends
\* only by a line read or by the end of the stream; a completion is requested
\* only when none is awaited, or in the step in which the awaited one returned
\* its reply; a user line is dequeued only at recv(), with no call of the turn
\* before left to run.
SequentialSteps ==
    /\ Len(stdin') > Len(stdin)
          => /\ pc \notin (TransportWaits \cup CompletionWaits)
             /\ pc' \in TransportWaits
             /\ Len(stdin') = Len(stdin) + 1
    /\ (pc \in TransportWaits /\ pc' \notin (TransportWaits \cup {"cancelled"}))
          => \/ stdout /= <<>> /\ stdout' = Tail(stdout)
             \/ stdout = <<>> /\ child /= "running"
    /\ Len(llm_reqs') > Len(llm_reqs)
          => /\ pc /= "final_wait"
             /\ pc = "thinking" => /\ Len(history') = Len(history) + 1
                                   /\ history'[Len(history')].role = "assistant"
             /\ pc' \in CompletionWaits
             /\ Len(llm_reqs') = Len(llm_reqs) + 1
    /\ turn'.n > turn.n
          => /\ pc = "idle"
             /\ call_idx = 0
             /\ turn'.n = turn.n + 1

(* C17 as stated: the orchestrator does one thing at a time, and at every    *)
(* moment at most one request has been written to the transport without its  *)
(* response line having been read.                                           *)
C17_Original ==
    /\ [](Unanswered <= 1)
    /\ [][SequentialSteps]_vars

(* C17 as amended: the orchestrator does one thing at a time: at most one    *)
(* request is awaiting its blocking read, at most one completion is pending,  *)
(* a turn finishes before the next user line is dequeued; and while the tool  *)
(* process keeps its output stream open at most one request has been written  *)
(* without its response line having been read.                               *)
C17_Sequential ==
    /\ [](child = "running" => Unanswered <= 1)
    /\ [][SequentialSteps]_vars

\* two tool calls of one reply, each written and answered before the next
C17_Witness ==
    /\ pc = "final_wait"
    /\ child = "running"
    /\ Len(TurnWrites) = 2
    /\ Unanswered = 0

\* the orchestrator task has ended: it left the loop, or was dropped
Terminated == pc \in {"done", "cancelled"}

(* C18: once the user-text channel is closed the orchestrator processes      *)
(* every line sent before the close and then ends: when the task has left    *)
(* the loop or has been dropped no line is left in the channel, and after    *)
(* that nothing is dequeued, appended, requested or written.                 *)
C18_DrainsThenTerminates ==
    /\ [](Terminated => rx_agent = <<>>)
    /\ [][Terminated => (/\ rx_agent' = rx_agent
                         /\ history' = history
                         /\ llm_reqs' = llm_reqs
                         /\ stdin' = stdin)]_vars

\* the stages of the conversation loop
LoopStages == {"idle", "thinking", "exec", "call_wait", "final_wait"}

\* a step of the orchestrator inside the loop, other than the end of the task
LoopStep ==
    /\ pc \in LoopStages
    /\ pc' /= pc \/ tx_ui' /= tx_ui
    /\ pc' \notin {"done", "cancelled"}

(* C19: with the receiver of the display events closed (run_tui has          *)
(* returned), every step of the loop does what it does with a live           *)
(* receiver: the task stays in the loop, a dequeued line is appended and a   *)
(* completion requested for it, a reply is appended, a call that passes the  *)
(* gate is written to the transport, a returned call appends its tool        *)
(* message, and the final answer is appended.                                *)
C19_ClosedReceiverIgnored ==
    [][ (~tx_agent_open /\ LoopStep)
        => /\ pc' \in LoopStages
           /\ pc = "idle"
                => /\ pc' = "thinking"
                   /\ history' = Append(history,
                                        Message("user", Some(Head(rx_agent)), None, None))
                   /\ llm_reqs' = Append(llm_reqs, [messages |-> Len(history'),
                                                    tools |-> tools])
           /\ (pc \in {"thinking", "final_wait"} /\ last_llm' = "ok")
                => /\ Len(history') = Len(history) + 1
                   /\ history'[Len(history')].role = "assistant"
           /\ pc = "final_wait" => pc' = "idle"
           /\ (pc = "exec" /\ StdinOpen
                  /\ check_permission(security, tool_calls[call_idx].name))
                => /\ pc' = "call_wait"
                   /\ Len(stdin') = Len(stdin) + 1
                   /\ stdin'[Len(stdin')].method = "tools/call"
           /\ (pc \in {"exec", "call_wait"} /\ pc' /= "call_wait")
                => /\ Len(history') = Len(history) + 1
                   /\ history'[Len(history')].role = "tool"
                   /\ history'[Len(history')].tool_call_id
                         = Some(tool_calls[call_idx].id) ]_vars

\* a turn of two calls, one of them written to the transport, that began
\* after the receiver was closed and ran to its final answer
C19_Witness ==
    /\ ~tx_agent_open
    /\ turn.ui_closed
    /\ TurnOver
    /\ Len(TurnHistory) = 5
    /\ Len(TurnWrites) >= 1
    /\ Len(TurnEvents) >= 5
    /\ TurnEvents[Len(TurnEvents)] = "Ai"

\* the argument texts of CallChoices that are JSON documents
JsonTexts == {"{ \"a\": 2, \"b\": 2 }", "{ \"cmd\": \"ls\" }"}

(* C20: a requested call whose argument text is no JSON does not end the     *)
(* turn and raises no error: the pass of the loop sends its EXEC log only,   *)
(* call_tool is invoked, and when the gate lets it through the request       *)
(* written carries the tool's name and the empty document as arguments; and  *)
(* in a finished turn the call has its tool message, with its id, like any   *)
(* other call.                                                               *)
C20_MalformedArguments ==
    /\ [][ (/\ pc = "exec"
             /\ tx_ui' /= tx_ui
             /\ tool_calls[call_idx].arguments \notin JsonTexts)
            => /\ pc' \in {"exec", "call_wait", "final_wait"}
               /\ gate'.tool_name = tool_calls[call_idx].name
               /\ (check_permission(security, tool_calls[call_idx].name) /\ StdinOpen)
                    => /\ pc' = "call_wait"
                       /\ tx_ui' = Append(tx_ui, "Log")
                       /\ stdin' = Append(stdin,
                              [method |-> "tools/call",
                               params |-> Some([name |-> tool_calls[call_idx].name,
                                                arguments |-> "{}"]),
                               id |-> request_id_counter + 1]) ]_vars
    /\ []((TurnOver /\ FirstReplied)
           => \A i \in 1..Len(FirstCalls) :
                FirstCalls[i].arguments \notin JsonTexts
                => /\ TurnHistory[2 + i].role = "tool"
                   /\ TurnHistory[2 + i].tool_call_id = Some(FirstCalls[i].id))

\* a finished turn whose one call had cut-off arguments: the tool was asked
\* with the empty document and its answer is the tool message of the call
C20_Witness ==
    /\ TurnOver
    /\ FirstReplied
    /\ Len(FirstCalls) = 1
    /\ FirstCalls[1].arguments = "{\"a\": 2,"
    /\ Len(TurnWrites) = 1
    /\ Unwrap(TurnWrites[1].params).arguments = "{}"
    /\ TurnHistory[3].content = Some("{content:[{text:The sum is 0,type:text}]}")
    /\ TurnHistory[3].tool_call_id = Some(FirstCalls[1].id)
    /\ Count(TurnEvents, "Error") = 0

(* C21: on every path on which the client is dropped (a handshake that       *)
(* fails, a later startup failure, the end of the loop) the child process    *)
(* is terminated: once the client is dropped the child is eventually no      *)
(* longer running.                                                           *)
C21_ChildTerminatedOnDrop == ClientDropped ~> (child = "exited")

(* C22: mock_tool answers every request it has read, and a request whose     *)
(* method it does not know with the error response of code -32601 under the  *)
(* request's id: the i-th line it wrote answers the i-th request it read.    *)
C22_UnknownMethodAnswered ==
    pc = "tool"
    => /\ Len(stdout) = child_pos
       /\ \A i \in 1..child_pos :
             stdin[i].method \in OtherMethods
             => stdout[i] = [id |-> MockId(stdin[i]), result |-> None,
                             error |-> Some(MethodNotFound)]

\* the scenario: policy global deny with the one rule calculate_sum = allow,
\* and a turn whose first reply requests the one call calculate_sum(a=2, b=2)
SumScenario ==
    /\ security.global_policy = "deny"
    /\ security.rules = {<<"calculate_sum", "allow">>}
    /\ turn.n > 0
    /\ FirstReplied
    /\ Len(FirstCalls) = 1
    /\ FirstCalls[1].name = "calculate_sum"
    /\ FirstCalls[1].arguments = "{ \"a\": 2, \"b\": 2 }"

(* C23: in that scenario the gate allows the call and exactly one tools/call *)
(* request is written, with name calculate_sum and arguments {a:2,b:2};      *)
(* once the tool has answered it as mock_tool does, the transcript ends with *)
(* a tool message whose content is the text The sum is 4; and the turn that  *)
(* got its final answer ends with an Ai event.                               *)
C23_SumEndToEnd ==
    SumScenario
    => /\ pc = "call_wait"
          => /\ gate = [tool_name |-> "calculate_sum", verdict |-> TRUE]
             /\ TurnWrites = <<JsonRpcRequest("tools/call",
                                   Some([name |-> "calculate_sum",
                                         arguments |-> "{a:2,b:2}"]),
                                   request_id_counter)>>
       /\ (/\ pc = "final_wait"
           /\ Len(TurnWrites) = 1
           /\ last_result.line = MockToolResponse(TurnWrites[1]))
          => history[Len(history)] =
                Message("tool", Some("The sum is 4"), None, Some(FirstCalls[1].id))
       /\ (TurnOver /\ Len(TurnHistory) = 4)
          => TurnEvents[Len(TurnEvents)] = "Ai"

\* the display events that end a turn for the user
TerminalEvents == {"Ai", "Error"}

(* C24: no turn ends silently: with a tool process that is still running,   *)
(* when the loop is back at recv(), or has left, the turn of the last user   *)
(* message it dequeued has sent at least one Ai or Error event. A turn that  *)
(* is over has had every one of its requests answered, with a result or      *)
(* with a failure.                                                           *)
C24_NoSilentTurn ==
    (TurnOver /\ child = "running")
    => \E i \in DOMAIN TurnEvents : TurnEvents[i] \in TerminalEvents

\* what the transcript holds for a call the gate denied
DeniedContent(tool_name) == Some("Error: " \o PermissionDenied(tool_name).text)

(* C25: a denied call_tool takes no request id: the requests written carry   *)
(* the ids 1, 2, 3, ... in order with no gap, and as long as no write has    *)
(* failed (the tool process has not exited) the counter is the number of     *)
(* requests written, whatever calls the gate denied in between.              *)
C25_IdsConsecutive ==
    /\ \A i \in 1..Len(stdin) : stdin[i].id = i
    /\ child /= "exited" => request_id_counter = Len(stdin)

\* a call was denied and the next call of the same reply has been written
C25_Witness ==
    /\ pc = "call_wait"
    /\ call_idx = 2
    /\ history[Len(history)].role = "tool"
    /\ history[Len(history)].content = DeniedContent(tool_calls[1].name)
    /\ Pending.method = "tools/call"
    /\ Pending.id = Len(stdin)

\* the user-role messages of a transcript, in its order
UserMessages(h) == SelectSeq(h, LAMBDA m : m.role = "user")

\* the n-th line that was submitted, as the transcript holds it
UserMessage(n) == Message("user", Some(UserLine(n)), None, None)

(* C26: the user-role messages of the transcript are the submitted lines in  *)
(* submission order, one per line that is not blank: the i-th of them is the *)
(* i-th line, the lines after them wait in the channel in order, and a step  *)
(* either leaves both alone, or puts one line that is not blank at the end   *)
(* of the channel, or moves the head of the channel to the end of the user   *)
(* messages. No line is lost and none is taken twice.                        *)
C26_UserMessagesInOrder ==
    /\ [](/\ \A i \in 1..Len(UserMessages(history)) :
                UserMessages(history)[i] = UserMessage(i)
          /\ \A j \in 1..Len(rx_agent) :
                rx_agent[j] = UserLine(Len(UserMessages(history)) + j))
    /\ [][\/ /\ UserMessages(history') = UserMessages(history)
             /\ \/ rx_agent' = rx_agent
                \/ \E n \in 1..(MaxTurns + 1) : rx_agent' = Append(rx_agent, UserLine(n))
          \/ /\ rx_agent /= <<>>
             /\ rx_agent' = Tail(rx_agent)
             /\ UserMessages(history') =
                   Append(UserMessages(history),
                          Message("user", Some(Head(rx_agent)), None, None))]_vars

\* two lines were submitted and both have been taken into the transcript
C26_Witness ==
    /\ UserMessages(history) = <<UserMessage(1), UserMessage(2)>>
    /\ rx_agent = <<>>
    /\ pc = "thinking"

\* policy values the gate has no meaning for
Unrecognised == PolicyValues \ {"allow", "deny"}

(* C27: the gate fails closed: a name whose rule is any string other than    *)
(* the exact allow is denied, whatever the global policy, and a name with no *)
(* rule is denied whenever global_policy is any string other than the exact  *)
(* allow.                                                                    *)
C27_FailsClosed ==
    pc = "gate_done" =>
        /\ (\E p \in security.rules : p[1] = gate.tool_name /\ p[2] /= "allow")
              => gate.verdict = FALSE
        /\ (~HasRule(gate.tool_name) /\ security.global_policy /= "allow")
              => gate.verdict = FALSE

\* a rule of an unrecognised value was asked about under global policy allow
C27_Witness ==
    /\ pc = "gate_done"
    /\ \E v \in Unrecognised : <<gate.tool_name, v>> \in security.rules
    /\ security.global_policy = "allow"
    /\ gate.verdict = FALSE

====
